---- MODULE Spec2Model ----
(***************************************************************************)
(* Model of the neural_recording_demo repository: the DataJoint schema     *)
(* Subject -> Session -> Recording -> RecordingStats                       *)
(* (neural_pipeline.py), the computed table's make(), the two callers of   *)
(* RecordingStats.populate (compute_all_statistics in neural_pipeline.py   *)
(* and NeuralDataManager.compute_statistics in gui_app.py) and the GUI     *)
(* handlers of gui_app.py.                                                 *)
(*                                                                         *)
(* Tables are sets of rows (records).  Floats are integers: a sampling     *)
(* rate is kept in hundredths of a hertz, an amplitude in whole microvolts *)
(* (rounded down), the spike kernel exp(-linspace(0, 5, 100)) in           *)
(* thousandths.                                                            *)
(*                                                                         *)
(* Specifications: Spec (the store, rows entered by hand and the two       *)
(* callers of populate, one call at a time), SpecApp (the handlers of the  *)
(* window, populate_sample_data and the script), SpecMake (make over the   *)
(* values its columns can hold), SpecConcurrent (populate of the script    *)
(* and of the window step by step) and SpecTermination (the same with      *)
(* each process going on).                                                 *)
(***************************************************************************)
EXTENDS Integers, Sequences, FiniteSets, TLC

VARIABLES
    Subject,                  \* rows of the Subject table
    Session,                  \* rows of the Session table
    Recording,                \* rows of the Recording table
    RecordingStats,           \* rows of the RecordingStats table
    gui_pc,                   \* where compute_statistics stands: "idle" | "confirm"
    recordings_without_stats, \* the local of compute_statistics
    message,                  \* the QMessageBox the GUI shows
    view,                     \* the "Total entries" labels written by refresh_all_tables
    exported,                 \* the CSV file export_data wrote in the handler that ran last
    figure,                   \* what the VisualizationDialog drew in the handler that ran last
    lastCall,                 \* history: the most recent populate call
    made_calls,               \* history: keys make() has been called with
    made_done,                \* history: keys make() has returned normally for
    workers,                  \* the populate calls that run step by step, by caller
    lastLoad                  \* history: the most recent populate_sample_data call

vars == <<Subject, Session, Recording, RecordingStats, gui_pc,
          recordings_without_stats, message, view, exported, figure,
          lastCall, made_calls, made_done, workers, lastLoad>>

storeVars == <<Subject, Session, Recording, RecordingStats>>
guiVars == <<gui_pc, recordings_without_stats, message, view, exported, figure>>
histVars == <<lastCall, made_calls, made_done>>
auxVars == <<workers, lastLoad>>

-----------------------------------------------------------------------------
(* Bounds *)

\* Number of Recording keys in the universe, taken in the order of the
\* sample recordings: (1,1,1), (1,1,2), (1,2,1), (1,2,2), (2,1,1), ...
MaxRecordings == 2

-----------------------------------------------------------------------------
(* Keys *)

KeyOfIndex(i) ==
    [subject_id |-> (i \div 4) + 1,
     session_id |-> ((i \div 2) % 2) + 1,
     recording_id |-> (i % 2) + 1]

RecordingKeys == {KeyOfIndex(i) : i \in 0..(MaxRecordings - 1)}
SessionKeys == {[subject_id |-> k.subject_id, session_id |-> k.session_id] : k \in RecordingKeys}
SubjectKeys == {[subject_id |-> k.subject_id] : k \in RecordingKeys}

SubjectKey(r) == [subject_id |-> r.subject_id]
SessionKey(r) == [subject_id |-> r.subject_id, session_id |-> r.session_id]
RecordingKey(r) ==
    [subject_id |-> r.subject_id, session_id |-> r.session_id,
     recording_id |-> r.recording_id]

Keys(table) == {RecordingKey(r) : r \in table}

-----------------------------------------------------------------------------
(* The store: insert1 and fetch1 *)

\* What a call returns when it raises nothing.
NoError == "none"

\* An insert that reports success and writes nothing.
insert1_lost(table, row) == [error |-> NoError, table |-> table]

\* An insert that does not look for the key.
insert1_unchecked(table, row) == [error |-> NoError, table |-> table \cup {row}]

\* Table.insert1(row): a row whose primary key is already in the table is
\* refused with DuplicateError; the table is unchanged.
insert1(table, row) ==
    IF \E r \in table : RecordingKey(r) = RecordingKey(row)
      THEN [error |-> "DuplicateError", table |-> table]
      ELSE [error |-> NoError, table |-> table \cup {row}]

\* (Recording & key).fetch1(): exactly one row must match the restriction.
fetch1(table, key) == {r \in table : RecordingKey(r) = key}

-----------------------------------------------------------------------------
(* The synthetic signal of make and its statistics *)

duration_seconds == 10
SpikeSamples == 100
NoiseThreshold == 20
MinSpikes == 50
MaxSpikes == 200
MinSpikeAmplitude == 50
MaxSpikeAmplitude == 150

\* int(x) of Python truncates toward zero; n / d with d > 0.
IntTrunc(n, d) == IF n >= 0 THEN n \div d ELSE -((-n) \div d)

Abs(x) == IF x < 0 THEN -x ELSE x

\* 1000 * np.exp(-np.linspace(0, 5, 100)), rounded.
Decay ==
    << 1000,  951,  904,  859,  817,  777,  739,  702,  668,  635,
        603,  574,  545,  519,  493,  469,  446,  424,  403,  383,
        364,  346,  329,  313,  298,  283,  269,  256,  243,  231,
        220,  209,  199,  189,  180,  171,  162,  154,  147,  139,
        133,  126,  120,  114,  108,  103,   98,   93,   89,   84,
         80,   76,   72,   69,   65,   62,   59,   56,   53,   51,
         48,   46,   44,   42,   39,   38,   36,   34,   32,   31,
         29,   28,   26,   25,   24,   23,   22,   20,   19,   19,
         18,   17,   16,   15,   14,   14,   13,   12,   12,   11,
         11,   10,   10,    9,    9,    8,    8,    7,    7,    7 >>

\* num_samples = int(duration_seconds * sampling_rate); the rate is kept in
\* hundredths of a hertz.
num_samples(recording_info) ==
    IntTrunc(duration_seconds * recording_info.sampling_rate, 100)

\* The outcomes of the random source the model draws from.  The baseline
\* np.random.randn(...) * 10 comes out the same at every sample (noise), and
\* the num_spikes spikes all land on channel 0 at spike_time 0 with the same
\* spike_amplitude, so that the spike loop adds
\* num_spikes * spike_amplitude * exp(...) to signal[0, 0:100].
RandomOutcomes ==
    { [noise |-> 0,  num_spikes |-> MinSpikes,     spike_amplitude |-> MinSpikeAmplitude],
      [noise |-> -5, num_spikes |-> MaxSpikes - 1, spike_amplitude |-> MaxSpikeAmplitude - 1],
      [noise |-> 25, num_spikes |-> MinSpikes,     spike_amplitude |-> MinSpikeAmplitude] }

\* signal[0, 0:100] after the spike loop.
SpikeWindow(rnd) ==
    [i \in 1..SpikeSamples |->
        rnd.noise + (rnd.num_spikes * rnd.spike_amplitude * Decay[i]) \div 1000]

\* The sum and the largest of f[lo..hi], by halves.
RECURSIVE SumRange(_, _, _)
SumRange(f, lo, hi) ==
    IF lo > hi THEN 0
    ELSE IF lo = hi THEN f[lo]
    ELSE SumRange(f, lo, (lo + hi) \div 2) + SumRange(f, ((lo + hi) \div 2) + 1, hi)

RECURSIVE MaxRange(_, _, _)
MaxRange(f, lo, hi) ==
    IF lo = hi THEN f[lo]
    ELSE LET a == MaxRange(f, lo, (lo + hi) \div 2)
             b == MaxRange(f, ((lo + hi) \div 2) + 1, hi)
         IN  IF a >= b THEN a ELSE b

SumSeq(f, n) == SumRange(f, 1, n)
MaxSeq(f, n) == MaxRange(f, 1, n)

\* The integer square root.
ISqrt(x) == CHOOSE r \in 0..(x + 1) : r * r <= x /\ (r + 1) * (r + 1) > x

\* float(np.mean(np.abs(signal)))
mean_amplitude(num_channels, samples, rnd) ==
    LET w == SpikeWindow(rnd)
        total == num_channels * samples
    IN  ((total - SpikeSamples) * Abs(rnd.noise)
            + SumSeq([i \in 1..SpikeSamples |-> Abs(w[i])], SpikeSamples)) \div total

\* float(np.max(np.abs(signal)))
peak_amplitude(num_channels, samples, rnd) ==
    LET w == SpikeWindow(rnd)
        m == MaxSeq([i \in 1..SpikeSamples |-> Abs(w[i])], SpikeSamples)
    IN  IF num_channels * samples > SpikeSamples /\ Abs(rnd.noise) > m
          THEN Abs(rnd.noise) ELSE m

\* signal[signal < 20]: how many samples it holds.
BelowCount(num_channels, samples, rnd) ==
    LET w == SpikeWindow(rnd) IN
    (IF rnd.noise < NoiseThreshold THEN num_channels * samples - SpikeSamples ELSE 0)
        + Cardinality({i \in 1..SpikeSamples : w[i] < NoiseThreshold})

\* float(np.std(signal[signal < 20])); of an empty selection np.std is nan.
noise_level(num_channels, samples, rnd) ==
    LET w == SpikeWindow(rnd)
        outside == IF rnd.noise < NoiseThreshold
                     THEN num_channels * samples - SpikeSamples ELSE 0
        k == BelowCount(num_channels, samples, rnd)
        mu == (outside * rnd.noise
                 + SumSeq([i \in 1..SpikeSamples |->
                             IF w[i] < NoiseThreshold THEN w[i] ELSE 0], SpikeSamples))
              \div k
        sq == outside * (rnd.noise - mu) * (rnd.noise - mu)
                 + SumSeq([i \in 1..SpikeSamples |->
                             IF w[i] < NoiseThreshold
                               THEN (w[i] - mu) * (w[i] - mu) ELSE 0], SpikeSamples)
    IN  ISqrt(sq \div k)

-----------------------------------------------------------------------------
(* Rows *)

\* The subjects of populate_sample_data, by subject_id.
SampleSubjects ==
    { [subject_id |-> 1, subject_name |-> "M001", species |-> "mouse", sex |-> "M",
       date_of_birth |-> <<2024, 1, 15>>],
      [subject_id |-> 2, subject_name |-> "M002", species |-> "mouse", sex |-> "F",
       date_of_birth |-> <<2024, 2, 10>>],
      [subject_id |-> 3, subject_name |-> "R001", species |-> "rat", sex |-> "M",
       date_of_birth |-> <<2024, 3, 5>>],
      [subject_id |-> 4, subject_name |-> "M003", species |-> "mouse", sex |-> "F",
       date_of_birth |-> <<2024, 1, 20>>],
      [subject_id |-> 5, subject_name |-> "R002", species |-> "rat", sex |-> "M",
       date_of_birth |-> <<2024, 4, 12>>] }

\* The sessions of populate_sample_data.
SampleSessions ==
    { [subject_id |-> 1, session_id |-> 1, session_date |-> <<2024, 6, 1>>,
       experimenter |-> "Alice", brain_region |-> "V1"],
      [subject_id |-> 1, session_id |-> 2, session_date |-> <<2024, 6, 5>>,
       experimenter |-> "Alice", brain_region |-> "V1"],
      [subject_id |-> 2, session_id |-> 1, session_date |-> <<2024, 6, 2>>,
       experimenter |-> "Bob", brain_region |-> "M1"],
      [subject_id |-> 2, session_id |-> 2, session_date |-> <<2024, 6, 8>>,
       experimenter |-> "Bob", brain_region |-> "M1"],
      [subject_id |-> 3, session_id |-> 1, session_date |-> <<2024, 6, 3>>,
       experimenter |-> "Charlie", brain_region |-> "Hippocampus"],
      [subject_id |-> 3, session_id |-> 2, session_date |-> <<2024, 6, 10>>,
       experimenter |-> "Alice", brain_region |-> "Hippocampus"],
      [subject_id |-> 4, session_id |-> 1, session_date |-> <<2024, 6, 4>>,
       experimenter |-> "Bob", brain_region |-> "PFC"],
      [subject_id |-> 4, session_id |-> 2, session_date |-> <<2024, 6, 12>>,
       experimenter |-> "Charlie", brain_region |-> "PFC"],
      [subject_id |-> 5, session_id |-> 1, session_date |-> <<2024, 6, 6>>,
       experimenter |-> "Alice", brain_region |-> "Striatum"],
      [subject_id |-> 5, session_id |-> 2, session_date |-> <<2024, 6, 15>>,
       experimenter |-> "Bob", brain_region |-> "Striatum"] }

\* recording_time of the 20 sample recordings, in the order of the list.
SampleTimes ==
    << <<9, 30>>, <<10, 15>>, <<9, 45>>, <<11, 0>>,
       <<10, 0>>, <<11, 30>>, <<9, 15>>, <<10, 45>>,
       <<8, 30>>, <<9, 45>>, <<10, 30>>, <<11, 15>>,
       <<9, 0>>, <<10, 30>>, <<8, 45>>, <<10, 0>>,
       <<9, 30>>, <<11, 0>>, <<10, 15>>, <<11, 45>> >>

\* num_channels and sampling_rate (hundredths of a hertz) of the sample
\* recordings, by subject_id.
SampleChannels == <<32, 64, 128, 32, 64>>
SampleRates == <<3000000, 2500000, 2000000, 3000000, 2500000>>

\* The recordings of populate_sample_data.
SampleRecordings ==
    { [subject_id |-> KeyOfIndex(i).subject_id,
       session_id |-> KeyOfIndex(i).session_id,
       recording_id |-> KeyOfIndex(i).recording_id,
       recording_time |-> SampleTimes[i + 1],
       num_channels |-> SampleChannels[KeyOfIndex(i).subject_id],
       sampling_rate |-> SampleRates[KeyOfIndex(i).subject_id]] : i \in 0..19 }

\* What a Recording row entered by hand may hold besides its key: the values
\* of a sample recording, a one-channel recording at 10.15 Hz (101 samples)
\* and a recording whose sampling rate was entered as 0.
RecordingInputs ==
    { [recording_time |-> <<9, 30>>, num_channels |-> 32, sampling_rate |-> 3000000],
      [recording_time |-> <<9, 30>>, num_channels |-> 1,  sampling_rate |-> 1015],
      [recording_time |-> <<9, 30>>, num_channels |-> 32, sampling_rate |-> 0] }

\* The values the columns num_channels (int) and sampling_rate (float) take
\* in the runs that look at make alone: the two shapes above, no channel and
\* a negative channel count, a rate of 0 and a negative rate, and the
\* positive rates 0.05 Hz (0 samples), 5 Hz (50 samples) and 10 Hz (100
\* samples).
MakeInputs ==
    { [recording_time |-> <<9, 30>>, num_channels |-> 32, sampling_rate |-> 3000000],
      [recording_time |-> <<9, 30>>, num_channels |-> 1,  sampling_rate |-> 1015],
      [recording_time |-> <<9, 30>>, num_channels |-> 0,  sampling_rate |-> 3000000],
      [recording_time |-> <<9, 30>>, num_channels |-> -1, sampling_rate |-> 3000000],
      [recording_time |-> <<9, 30>>, num_channels |-> 32, sampling_rate |-> 0],
      [recording_time |-> <<9, 30>>, num_channels |-> 32, sampling_rate |-> -100],
      [recording_time |-> <<9, 30>>, num_channels |-> 32, sampling_rate |-> 5],
      [recording_time |-> <<9, 30>>, num_channels |-> 32, sampling_rate |-> 500],
      [recording_time |-> <<9, 30>>, num_channels |-> 32, sampling_rate |-> 1000] }

RecordingRow(key, in) ==
    [subject_id |-> key.subject_id,
     session_id |-> key.session_id,
     recording_id |-> key.recording_id,
     recording_time |-> in.recording_time,
     num_channels |-> in.num_channels,
     sampling_rate |-> in.sampling_rate]

-----------------------------------------------------------------------------
(* RecordingStats.make *)

\* No statistics: make has not computed any.
NoStatistics ==
    [mean_amplitude |-> 0, peak_amplitude |-> 0, noise_level |-> 0, nan |-> FALSE]

\* The three statistics of a signal of the given shape; nan says that
\* signal[signal < 20] is empty, so that noise_level is nan.
compute(num_channels, samples, rnd) ==
    IF BelowCount(num_channels, samples, rnd) = 0
      THEN [mean_amplitude |-> mean_amplitude(num_channels, samples, rnd),
            peak_amplitude |-> peak_amplitude(num_channels, samples, rnd),
            noise_level |-> 0, nan |-> TRUE]
      ELSE [mean_amplitude |-> mean_amplitude(num_channels, samples, rnd),
            peak_amplitude |-> peak_amplitude(num_channels, samples, rnd),
            noise_level |-> noise_level(num_channels, samples, rnd), nan |-> FALSE]

\* The shapes (num_channels, num_samples) a signal is generated with.
Shapes ==
    {<<r.num_channels, num_samples(r)>> :
        r \in SampleRecordings \cup RecordingInputs \cup MakeInputs}

\* compute, evaluated once for every shape the spike loop accepts.
Computed ==
    {<<x[1], x[2], rnd, compute(x[1], x[2], rnd)>> :
        x \in {y \in Shapes : y[1] > 0 /\ y[2] > SpikeSamples}, rnd \in RandomOutcomes}

Statistics(num_channels, samples, rnd) ==
    (CHOOSE c \in Computed : c[1] = num_channels /\ c[2] = samples /\ c[3] = rnd)[4]

\* A row that lacks noise_level.
StatsRow_partial(key, stats) ==
    [subject_id |-> key.subject_id,
     session_id |-> key.session_id,
     recording_id |-> key.recording_id,
     mean_amplitude |-> stats.mean_amplitude,
     peak_amplitude |-> stats.peak_amplitude]

\* The row insert1 is given: {**key, mean_amplitude, peak_amplitude, noise_level}.
StatsRow(key, stats) ==
    [subject_id |-> key.subject_id,
     session_id |-> key.session_id,
     recording_id |-> key.recording_id,
     mean_amplitude |-> stats.mean_amplitude,
     peak_amplitude |-> stats.peak_amplitude,
     noise_level |-> stats.noise_level]

\* The first recording of the key's session, whatever its recording_id.
make_restriction_session(recording, key) ==
    IF \E r \in recording : SessionKey(r) = SessionKey(key)
      THEN {CHOOSE r \in recording : SessionKey(r) = SessionKey(key)}
      ELSE {}

\* The parent row make() reads: (Recording & key).
make_restriction(recording, key) == fetch1(recording, key)

\* A make that writes a row of zeros when the signal has no channel or too
\* few samples for a spike.
make_empty_signal(key, rnd, recording, stats) ==
    LET found == make_restriction(recording, key) IN
    IF Cardinality(found) # 1
      THEN [error |-> "DataJointError", table |-> stats]
    ELSE
    LET recording_info == CHOOSE r \in found : TRUE
        channels == recording_info.num_channels
        samples == num_samples(recording_info)
    IN  IF channels <= 0 \/ samples - SpikeSamples <= 0
          THEN insert1(stats, StatsRow(key, NoStatistics))
        ELSE IF Statistics(channels, samples, rnd).nan
          THEN [error |-> "MissingAttributeError", table |-> stats]
        ELSE insert1(stats, StatsRow(key, Statistics(channels, samples, rnd)))

\* make(key) on the tables (recording, stats) with the random source giving
\* rnd: the error it raises (NoError when it returns) and the RecordingStats
\* table it leaves.
\*   fetch1 raises DataJointError unless exactly one row matches;
\*   np.random.randn(num_channels, num_samples) raises ValueError on a
\*     negative dimension;
\*   np.random.randint(0, num_channels) and
\*     np.random.randint(0, num_samples - 100) raise ValueError when the
\*     upper end is not above 0 (num_spikes >= 50, so the loop body runs);
\*   np.std of the empty selection is nan; insert1 sends DEFAULT for a nan,
\*     the column noise_level (float, required) has no default, and the insert
\*     raises MissingAttributeError: no row is written.
make(key, rnd, recording, stats) ==
    LET found == make_restriction(recording, key) IN
    IF Cardinality(found) # 1
      THEN [error |-> "DataJointError", table |-> stats]
    ELSE
    LET recording_info == CHOOSE r \in found : TRUE
        channels == recording_info.num_channels
        samples == num_samples(recording_info)
    IN  IF channels < 0 \/ samples < 0
          THEN [error |-> "ValueError", table |-> stats]
        ELSE IF channels <= 0 \/ samples - SpikeSamples <= 0
          THEN [error |-> "ValueError", table |-> stats]
        ELSE IF Statistics(channels, samples, rnd).nan
          THEN [error |-> "MissingAttributeError", table |-> stats]
        ELSE insert1(stats, StatsRow(key, Statistics(channels, samples, rnd)))

\* make(key) up to its insert1: the fetch of the parent row and the
\* generation of the signal and its statistics.
make_signal(key, rnd, recording) ==
    LET found == make_restriction(recording, key) IN
    IF Cardinality(found) # 1
      THEN [error |-> "DataJointError", stats |-> NoStatistics]
    ELSE
    LET recording_info == CHOOSE r \in found : TRUE
        channels == recording_info.num_channels
        samples == num_samples(recording_info)
    IN  IF channels < 0 \/ samples < 0
          THEN [error |-> "ValueError", stats |-> NoStatistics]
        ELSE IF channels <= 0 \/ samples - SpikeSamples <= 0
          THEN [error |-> "ValueError", stats |-> NoStatistics]
        ELSE [error |-> NoError, stats |-> Statistics(channels, samples, rnd)]

\* The insert1 of make(key) with the statistics it computed.
make_insert1(key, stats, table) ==
    IF stats.nan
      THEN [error |-> "MissingAttributeError", table |-> table]
      ELSE insert1(table, StatsRow(key, stats))

-----------------------------------------------------------------------------
(* RecordingStats.populate *)

\* Every Recording key, with or without a RecordingStats row.
PendingKeys_all(recording, stats) == Keys(recording)

\* Recording() - RecordingStats(): the Recording rows with no RecordingStats row.
PendingKeys(recording, stats) == Keys(recording) \ Keys(stats)

\* The orders in which the keys of a set can come back from the store.
Orders(S) ==
    {o \in [1..Cardinality(S) -> S] : \A i, j \in DOMAIN o : o[i] = o[j] => i = j}

\* The loop of populate over the pending keys, each in its own transaction:
\* make(key); an exception cancels the transaction and is raised again to the
\* caller, which ends the loop (both callers pass display_progress only, so
\* suppress_errors and reserve_jobs keep their default, False).
RECURSIVE populate_loop(_, _, _, _, _)
populate_loop(keys, rnds, recording, stats, made) ==
    IF keys = <<>>
      THEN [error |-> NoError, table |-> stats, made |-> made]
    ELSE
      LET r == make(Head(keys), rnds[Head(keys)], recording, stats) IN
      IF r.error # NoError
        THEN [error |-> r.error, table |-> stats, made |-> Append(made, Head(keys))]
        ELSE populate_loop(Tail(keys), rnds, recording, r.table, Append(made, Head(keys)))

\* The loop that gives a failing key up and goes on; error is the first error met.
RECURSIVE populate_loop_suppress(_, _, _, _, _, _)
populate_loop_suppress(keys, rnds, recording, stats, made, error) ==
    IF keys = <<>>
      THEN [error |-> error, table |-> stats, made |-> made]
    ELSE
      LET r == make(Head(keys), rnds[Head(keys)], recording, stats) IN
      populate_loop_suppress(Tail(keys), rnds, recording, r.table,
                             Append(made, Head(keys)),
                             IF error = NoError THEN r.error ELSE error)

\* suppress_errors=True: the errors are collected and the call returns.
populate_suppress(order, rnds, recording, stats) ==
    [populate_loop_suppress(order, rnds, recording, stats, <<>>, NoError)
        EXCEPT !.error = NoError]

\* The loop goes on after a failing key and the first error is raised at the end.
populate_continue(order, rnds, recording, stats) ==
    populate_loop_suppress(order, rnds, recording, stats, <<>>, NoError)

\* populate(limit=1): only the first pending key is processed.
populate_limit(order, rnds, recording, stats) ==
    populate_loop(IF order = <<>> THEN order ELSE <<Head(order)>>,
                  rnds, recording, stats, <<>>)

\* Every pending key is handed to make() twice.
populate_twice(order, rnds, recording, stats) ==
    populate_loop(order \o order, rnds, recording, stats, <<>>)

\* RecordingStats.populate(): order enumerates the pending keys.
populate(order, rnds, recording, stats) ==
    populate_loop(order, rnds, recording, stats, <<>>)

Range(s) == {s[i] : i \in DOMAIN s}

-----------------------------------------------------------------------------
(* State *)

NoMessage == [kind |-> "none", title |-> "", count |-> 0]
NoFile == [table |-> "", rows |-> 0]
NoFigure == [text |-> "", points |-> 0]

NoCall ==
    [caller |-> "none", pending |-> {}, made |-> <<>>, error |-> NoError,
     before |-> {}, inserted |-> 0, repeat |-> FALSE, prev_error |-> NoError,
     computed |-> {}]

\* The two programs that call RecordingStats.populate: the pipeline script
\* and the window.
Callers == {"script", "gui"}

NoRandom == [noise |-> 0, num_spikes |-> 0, spike_amplitude |-> 0]

\* A caller that is not inside populate.  pending, computed and error are
\* those of its last call.
IdleWorker ==
    [pc |-> "idle", keys |-> <<>>, pending |-> {}, computed |-> {},
     rnd |-> NoRandom, stats |-> NoStatistics, error |-> NoError]

\* No populate_sample_data call yet.  computed says that RecordingStats held
\* rows when the call began.
NoLoad == [ran |-> FALSE, computed |-> FALSE]

\* The four "Total entries" labels.
Counts(subject, session, recording, stats) ==
    [subjects |-> Cardinality(subject), sessions |-> Cardinality(session),
     recordings |-> Cardinality(recording), stats |-> Cardinality(stats)]

\* An empty database; the window has been built, which ends with
\* refresh_all_tables.
Init ==
    /\ Subject = {}
    /\ Session = {}
    /\ Recording = {}
    /\ RecordingStats = {}
    /\ gui_pc = "idle"
    /\ recordings_without_stats = 0
    /\ message = NoMessage
    /\ view = Counts({}, {}, {}, {})
    /\ exported = NoFile
    /\ figure = NoFigure
    /\ lastCall = NoCall
    /\ made_calls = {}
    /\ made_done = {}
    /\ workers = [p \in Callers |-> IdleWorker]
    /\ lastLoad = NoLoad

-----------------------------------------------------------------------------
(* Rows entered by hand into the Manual tables *)

\* Subject.insert1(row) from outside the application.
InsertSubject(row) ==
    /\ SubjectKey(row) \in SubjectKeys
    /\ ~ \E r \in Subject : SubjectKey(r) = SubjectKey(row)
    /\ Subject' = Subject \cup {row}
    /\ UNCHANGED auxVars
    /\ UNCHANGED <<Session, Recording, RecordingStats, guiVars, histVars>>

\* Session.insert1(row): -> Subject, the subject must exist.
InsertSession(row) ==
    /\ SessionKey(row) \in SessionKeys
    /\ \E r \in Subject : SubjectKey(r) = SubjectKey(row)
    /\ ~ \E r \in Session : SessionKey(r) = SessionKey(row)
    /\ Session' = Session \cup {row}
    /\ UNCHANGED auxVars
    /\ UNCHANGED <<Subject, Recording, RecordingStats, guiVars, histVars>>

\* A Recording insert that does not look for the session.
InsertRecording_orphan(row) ==
    /\ RecordingKey(row) \in RecordingKeys
    /\ ~ \E r \in Recording : RecordingKey(r) = RecordingKey(row)
    /\ Recording' = Recording \cup {row}
    /\ lastCall' = NoCall
    /\ UNCHANGED auxVars
    /\ UNCHANGED <<Subject, Session, RecordingStats, guiVars, made_calls, made_done>>

\* Recording.insert1(row): -> Session, the session must exist.
InsertRecording(row) ==
    /\ RecordingKey(row) \in RecordingKeys
    /\ \E r \in Session : SessionKey(r) = SessionKey(row)
    /\ ~ \E r \in Recording : RecordingKey(r) = RecordingKey(row)
    /\ Recording' = Recording \cup {row}
    /\ lastCall' = NoCall
    /\ UNCHANGED auxVars
    /\ UNCHANGED <<Subject, Session, RecordingStats, guiVars, made_calls, made_done>>

-----------------------------------------------------------------------------
(* The callers of populate *)

\* The keys make() returned normally for in a populate call.
Done(r) ==
    IF r.error = NoError THEN Range(r.made)
    ELSE {r.made[i] : i \in 1..(Len(r.made) - 1)}

\* The statistics make computed for key before its insert1, nan included:
\* none when the fetch or the signal generation raised.
ComputedBy(key, rnd, recording) ==
    {Statistics(rec.num_channels, num_samples(rec), rnd) :
        rec \in {x \in make_restriction(recording, key) :
                    x.num_channels > 0 /\ num_samples(x) > SpikeSamples}}

\* The history of a populate call by caller that returned r, the random
\* source giving rnds.
Record(caller, r, rnds) ==
    /\ lastCall' =
         [caller |-> caller,
          pending |-> Keys(Recording) \ Keys(RecordingStats),
          made |-> r.made,
          error |-> r.error,
          before |-> RecordingStats,
          inserted |-> Cardinality(r.table) - Cardinality(RecordingStats),
          repeat |-> lastCall.caller # "none",
          prev_error |-> lastCall.error,
          computed |-> UNION {ComputedBy(k, rnds[k], Recording) : k \in Range(r.made)}]
    /\ made_calls' = made_calls \cup Range(r.made)
    /\ made_done' = made_done \cup Done(r)

\* compute_all_statistics() of neural_pipeline.py: one populate call; an
\* exception of make() ends the script.
ComputeAllStatistics ==
    /\ \E order \in Orders(PendingKeys(Recording, RecordingStats)) :
       \E rnds \in [PendingKeys(Recording, RecordingStats) -> RandomOutcomes] :
          LET r == populate(order, rnds, Recording, RecordingStats) IN
          /\ RecordingStats' = r.table
          /\ Record("script", r, rnds)
    /\ UNCHANGED auxVars
    /\ UNCHANGED <<Subject, Session, Recording, guiVars>>

\* A compute_statistics that asks for confirmation whatever the count.
GuiComputeStatistics_unguarded ==
    /\ gui_pc = "idle"
    /\ gui_pc' = "confirm"
    /\ recordings_without_stats' = Cardinality(PendingKeys(Recording, RecordingStats))
    /\ message' = NoMessage
    /\ exported' = NoFile
    /\ figure' = NoFigure
    /\ UNCHANGED auxVars
    /\ UNCHANGED <<storeVars, view, histVars>>

\* compute_statistics() up to the confirmation dialog.
GuiComputeStatistics ==
    /\ gui_pc = "idle"
    /\ LET n == Cardinality(PendingKeys(Recording, RecordingStats)) IN
       IF n = 0
         THEN /\ message' = [kind |-> "information", title |-> "Already Computed",
                             count |-> 0]
              /\ UNCHANGED <<gui_pc, recordings_without_stats>>
         ELSE /\ gui_pc' = "confirm"
              /\ recordings_without_stats' = n
              /\ message' = NoMessage
    /\ exported' = NoFile
    /\ figure' = NoFigure
    /\ UNCHANGED auxVars
    /\ UNCHANGED <<storeVars, view, histVars>>

\* The user answers No: compute_statistics returns.
GuiReplyNo ==
    /\ gui_pc = "confirm"
    /\ gui_pc' = "idle"
    /\ recordings_without_stats' = 0
    /\ UNCHANGED auxVars
    /\ UNCHANGED <<storeVars, message, view, exported, figure, histVars>>

\* The user answers Yes: populate, refresh_all_tables and the Success box, or
\* the Error box when populate raises.
GuiReplyYes ==
    /\ gui_pc = "confirm"
    /\ \E order \in Orders(PendingKeys(Recording, RecordingStats)) :
       \E rnds \in [PendingKeys(Recording, RecordingStats) -> RandomOutcomes] :
          LET r == populate(order, rnds, Recording, RecordingStats) IN
          /\ RecordingStats' = r.table
          /\ Record("gui", r, rnds)
          /\ IF r.error = NoError
               THEN /\ view' = Counts(Subject, Session, Recording, r.table)
                    /\ message' = [kind |-> "information", title |-> "Success",
                                   count |-> recordings_without_stats]
               ELSE /\ view' = view
                    /\ message' = [kind |-> "critical", title |-> "Error", count |-> 0]
    /\ gui_pc' = "idle"
    /\ recordings_without_stats' = 0
    /\ UNCHANGED auxVars
    /\ UNCHANGED <<Subject, Session, Recording, exported, figure>>

-----------------------------------------------------------------------------
(* populate_sample_data *)

\* Table.insert(rows, skip_duplicates=True): the rows whose key the table
\* already holds are passed over.
Subject_insert(table, rows) ==
    table \cup {row \in rows : ~ \E r \in table : SubjectKey(r) = SubjectKey(row)}

Session_insert(table, rows) ==
    table \cup {row \in rows : ~ \E r \in table : SessionKey(r) = SessionKey(row)}

Recording_insert(table, rows) ==
    table \cup {row \in rows : ~ \E r \in table : RecordingKey(r) = RecordingKey(row)}

\* The sample rows whose keys are in the universe of the model.
SubjectsToLoad == {row \in SampleSubjects : SubjectKey(row) \in SubjectKeys}
SessionsToLoad == {row \in SampleSessions : SessionKey(row) \in SessionKeys}
RecordingsToLoad == {row \in SampleRecordings : RecordingKey(row) \in RecordingKeys}

\* The foreign keys of the definitions: -> Subject in Session, -> Session in
\* Recording.  An insert of a row whose parent row is missing is refused with
\* IntegrityError, and the statement inserts nothing.
SessionParents(subject, rows) ==
    \A row \in rows : \E r \in subject : SubjectKey(r) = SubjectKey(row)

RecordingParents(session, rows) ==
    \A row \in rows : \E r \in session : SessionKey(r) = SessionKey(row)

\* The sample load with Recording.insert(recordings, replace=True): a replaced
\* Recording row is deleted and written again, and the delete cascades to its
\* RecordingStats row.
populate_sample_data_replace(subject, session, recording, stats) ==
    [error |-> NoError,
     subject |-> Subject_insert(subject, SubjectsToLoad),
     session |-> Session_insert(session, SessionsToLoad),
     recording |-> {r \in recording : RecordingKey(r) \notin Keys(RecordingsToLoad)}
                      \cup RecordingsToLoad,
     stats |-> {r \in stats : RecordingKey(r) \notin Keys(RecordingsToLoad)}]

\* The sample load with the three inserts in the opposite order: recordings,
\* then sessions, then subjects; the first statement that is refused ends it.
populate_sample_data_child_first(subject, session, recording, stats) ==
    IF ~ RecordingParents(session, RecordingsToLoad)
      THEN [error |-> "IntegrityError", subject |-> subject, session |-> session,
            recording |-> recording, stats |-> stats]
    ELSE IF ~ SessionParents(subject, SessionsToLoad)
      THEN [error |-> "IntegrityError", subject |-> subject, session |-> session,
            recording |-> Recording_insert(recording, RecordingsToLoad), stats |-> stats]
    ELSE [error |-> NoError,
          subject |-> Subject_insert(subject, SubjectsToLoad),
          session |-> Session_insert(session, SessionsToLoad),
          recording |-> Recording_insert(recording, RecordingsToLoad),
          stats |-> stats]

\* populate_sample_data(): subjects, then sessions, then recordings; an
\* insert that is refused raises, which ends the function with the earlier
\* inserts kept.
populate_sample_data(subject, session, recording, stats) ==
    LET subject1 == Subject_insert(subject, SubjectsToLoad)
        session1 == Session_insert(session, SessionsToLoad)
    IN  IF ~ SessionParents(subject1, SessionsToLoad)
          THEN [error |-> "IntegrityError", subject |-> subject1, session |-> session,
                recording |-> recording, stats |-> stats]
        ELSE IF ~ RecordingParents(session1, RecordingsToLoad)
          THEN [error |-> "IntegrityError", subject |-> subject1, session |-> session1,
                recording |-> recording, stats |-> stats]
        ELSE [error |-> NoError, subject |-> subject1, session |-> session1,
              recording |-> Recording_insert(recording, RecordingsToLoad),
              stats |-> stats]

PopulateSampleData ==
    LET r == populate_sample_data(Subject, Session, Recording, RecordingStats) IN
    /\ Subject' = r.subject
    /\ Session' = r.session
    /\ Recording' = r.recording
    /\ RecordingStats' = r.stats
    /\ lastCall' = IF r.recording = Recording THEN lastCall ELSE NoCall
    /\ lastLoad' = [ran |-> TRUE, computed |-> RecordingStats # {}]
    /\ UNCHANGED workers
    /\ UNCHANGED <<guiVars, made_calls, made_done>>

-----------------------------------------------------------------------------
(* The other handlers of NeuralDataManager *)

\* refresh_all_tables()
RefreshAllTables ==
    /\ gui_pc = "idle"
    /\ view' = Counts(Subject, Session, Recording, RecordingStats)
    /\ message' = NoMessage
    /\ exported' = NoFile
    /\ figure' = NoFigure
    /\ UNCHANGED auxVars
    /\ UNCHANGED <<storeVars, gui_pc, recordings_without_stats, histVars>>

\* What the user may type into the Subject ID field, one character per element.
SubjectIdTexts == { <<"1">>, <<"6">>, <<"x">>, <<>> }

Digits == <<"0", "1", "2", "3", "4", "5", "6", "7", "8", "9">>

IsDigit(c) == \E d \in DOMAIN Digits : Digits[d] = c

DigitValue(c) == (CHOOSE d \in DOMAIN Digits : Digits[d] = c) - 1

RECURSIVE DecimalValue(_)
DecimalValue(text) ==
    IF text = <<>> THEN 0
    ELSE 10 * DecimalValue(SubSeq(text, 1, Len(text) - 1)) + DigitValue(text[Len(text)])

\* int(text) for an unsigned decimal text: ValueError unless the text is a
\* non-empty run of digits.
int(text) ==
    IF text # <<>> /\ \A i \in DOMAIN text : IsDigit(text[i])
      THEN [error |-> NoError, value |-> DecimalValue(text)]
      ELSE [error |-> "ValueError", value |-> 0]

\* AddSubjectDialog.get_data() for the text of the id field and the choice of
\* the species box.
get_data(text, species) ==
    [subject_id |-> int(text).value,
     subject_name |-> "S",
     species |-> species,
     sex |-> "M",
     date_of_birth |-> <<2024, 1, 15>>]

\* add_subject(): the dialog is cancelled.
AddSubjectCancel ==
    /\ gui_pc = "idle"
    /\ message' = NoMessage
    /\ exported' = NoFile
    /\ figure' = NoFigure
    /\ UNCHANGED auxVars
    /\ UNCHANGED <<storeVars, gui_pc, recordings_without_stats, view, histVars>>

\* An add_subject that writes over the row of an id that exists
\* (insert1 with replace=True).
AddSubject_replace(text, species) ==
    /\ gui_pc = "idle"
    /\ exported' = NoFile
    /\ figure' = NoFigure
    /\ IF int(text).error # NoError
         THEN /\ message' = [kind |-> "critical", title |-> "Error", count |-> 0]
              /\ UNCHANGED <<Subject, view>>
         ELSE /\ Subject' = {r \in Subject :
                                SubjectKey(r) # SubjectKey(get_data(text, species))}
                               \cup {get_data(text, species)}
              /\ view' = Counts(Subject', Session, Recording, RecordingStats)
              /\ message' = [kind |-> "information", title |-> "Success", count |-> 0]
    /\ UNCHANGED auxVars
    /\ UNCHANGED <<Session, Recording, RecordingStats, gui_pc,
                   recordings_without_stats, histVars>>

\* add_subject(): the dialog is accepted.
AddSubject(text, species) ==
    /\ gui_pc = "idle"
    /\ exported' = NoFile
    /\ figure' = NoFigure
    /\ IF int(text).error # NoError
         THEN /\ message' = [kind |-> "critical", title |-> "Error", count |-> 0]
              /\ UNCHANGED <<Subject, view>>
       ELSE IF \E r \in Subject : SubjectKey(r) = SubjectKey(get_data(text, species))
         THEN /\ message' = [kind |-> "critical", title |-> "Error", count |-> 0]
              /\ UNCHANGED <<Subject, view>>
       ELSE /\ Subject' = Subject \cup {get_data(text, species)}
            /\ view' = Counts(Subject', Session, Recording, RecordingStats)
            /\ message' = [kind |-> "information", title |-> "Success", count |-> 0]
    /\ UNCHANGED auxVars
    /\ UNCHANGED <<Session, Recording, RecordingStats, gui_pc,
                   recordings_without_stats, histVars>>

tab_names == <<"Subjects", "Sessions", "Recordings", "Statistics">>

\* export_data() with the tab at current_tab_index in front; filename says
\* whether the user chose a file.
ExportData(current_tab_index, filename) ==
    /\ gui_pc = "idle"
    /\ figure' = NoFigure
    /\ LET data == IF current_tab_index = 0 THEN Cardinality(Subject)
                   ELSE IF current_tab_index = 1 THEN Cardinality(Session)
                   ELSE IF current_tab_index = 2 THEN Cardinality(Recording)
                   ELSE Cardinality(RecordingStats)
       IN  IF data = 0
             THEN /\ message' = [kind |-> "warning", title |-> "No Data", count |-> 0]
                  /\ exported' = NoFile
           ELSE IF filename
             THEN /\ exported' = [table |-> tab_names[current_tab_index + 1],
                                  rows |-> data]
                  /\ message' = [kind |-> "information", title |-> "Success",
                                 count |-> data]
           ELSE /\ exported' = NoFile
                /\ message' = NoMessage
    /\ UNCHANGED auxVars
    /\ UNCHANGED <<storeVars, gui_pc, recordings_without_stats, view, histVars>>

\* show_visualizations(): VisualizationDialog.plot_statistics().
ShowVisualizations ==
    /\ gui_pc = "idle"
    /\ message' = NoMessage
    /\ exported' = NoFile
    /\ figure' = IF RecordingStats = {}
                   THEN [text |-> "No statistics available", points |-> 0]
                   ELSE [text |-> "Recording Statistics Summary",
                         points |-> Cardinality(RecordingStats)]
    /\ UNCHANGED auxVars
    /\ UNCHANGED <<storeVars, gui_pc, recordings_without_stats, view, histVars>>

-----------------------------------------------------------------------------
(* populate step by step: the script and the window are two processes on   *)
(* the same database, and nothing keeps one from entering populate while   *)
(* the other is inside it.  populate fetches the keys of                   *)
(* Recording - RecordingStats once; for each key in turn it opens a        *)
(* transaction, passes the key over when RecordingStats holds it by now,   *)
(* and calls make otherwise.  A step is what one process does between two  *)
(* accesses to the store that another process can see: the calls in        *)
(* progress are described by workers, and lastCall keeps describing the    *)
(* calls taken as one step.                                                *)

\* The loop moves on to the keys after the first.
RemainingKeys_same(keys) == keys

RemainingKeys(keys) == Tail(keys)

\* populate of caller p raises error: the script ends; compute_statistics
\* shows its Error box.  keys keeps the key the call raised at.
Raise(p, error) ==
    /\ workers' = [workers EXCEPT ![p].pc = "idle", ![p].error = error,
                                   ![p].keys = <<Head(workers[p].keys)>>,
                                   ![p].rnd = NoRandom, ![p].stats = NoStatistics]
    /\ IF p = "gui"
         THEN /\ gui_pc' = "idle"
              /\ recordings_without_stats' = 0
              /\ message' = [kind |-> "critical", title |-> "Error", count |-> 0]
              /\ UNCHANGED <<view, exported, figure>>
         ELSE UNCHANGED guiVars

\* Caller p enters RecordingStats.populate(): the script in
\* compute_all_statistics, the window when the user answers Yes.  The keys
\* of Recording - RecordingStats are fetched.
PopulateBegin(p) ==
    /\ workers[p].pc = "idle"
    /\ IF p = "gui"
         THEN /\ gui_pc = "confirm"
              /\ gui_pc' = "populate"
              /\ UNCHANGED <<recordings_without_stats, message, view, exported, figure>>
         ELSE UNCHANGED guiVars
    /\ \E order \in Orders(PendingKeys(Recording, RecordingStats)) :
          workers' = [workers EXCEPT ![p] =
                        [pc |-> "key", keys |-> order, pending |-> Range(order),
                         computed |-> {}, rnd |-> NoRandom, stats |-> NoStatistics,
                         error |-> NoError]]
    /\ UNCHANGED <<storeVars, histVars, lastLoad>>

\* The next key of the loop: passed over when it has a RecordingStats row by
\* now; make(key) up to its insert1 otherwise.
PopulateKey(p) ==
    /\ workers[p].pc = "key"
    /\ workers[p].keys # <<>>
    /\ LET key == Head(workers[p].keys) IN
       IF key \in Keys(RecordingStats)
         THEN /\ workers' = [workers EXCEPT ![p].keys = RemainingKeys(workers[p].keys)]
              /\ UNCHANGED <<guiVars, made_calls>>
         ELSE /\ made_calls' = made_calls \cup {key}
              /\ \E rnd \in RandomOutcomes :
                    LET r == make_signal(key, rnd, Recording) IN
                    IF r.error # NoError
                      THEN Raise(p, r.error)
                      ELSE /\ workers' = [workers EXCEPT
                                            ![p].pc = "insert",
                                            ![p].rnd = rnd,
                                            ![p].stats = r.stats,
                                            ![p].computed = workers[p].computed \cup {key}]
                           /\ UNCHANGED guiVars
    /\ UNCHANGED <<storeVars, lastCall, made_done, lastLoad>>

\* The insert1 of make(key) and the end of the transaction.
MakeInsert(p) ==
    /\ workers[p].pc = "insert"
    /\ LET key == Head(workers[p].keys)
           r == make_insert1(key, workers[p].stats, RecordingStats)
       IN  IF r.error # NoError
             THEN /\ Raise(p, r.error)
                  /\ UNCHANGED <<RecordingStats, made_done>>
             ELSE /\ RecordingStats' = r.table
                  /\ made_done' = made_done \cup {key}
                  /\ workers' = [workers EXCEPT
                                   ![p].pc = "key",
                                   ![p].keys = RemainingKeys(workers[p].keys),
                                   ![p].rnd = NoRandom,
                                   ![p].stats = NoStatistics]
                  /\ UNCHANGED guiVars
    /\ UNCHANGED <<Subject, Session, Recording, lastCall, made_calls, lastLoad>>

\* The loop is over and populate returns: compute_statistics refreshes the
\* tables and shows its Success box.
PopulateReturn(p) ==
    /\ workers[p].pc = "key"
    /\ workers[p].keys = <<>>
    /\ workers' = [workers EXCEPT ![p].pc = "idle"]
    /\ IF p = "gui"
         THEN /\ gui_pc' = "idle"
              /\ recordings_without_stats' = 0
              /\ view' = Counts(Subject, Session, Recording, RecordingStats)
              /\ message' = [kind |-> "information", title |-> "Success",
                             count |-> recordings_without_stats]
              /\ UNCHANGED <<exported, figure>>
         ELSE UNCHANGED guiVars
    /\ UNCHANGED <<storeVars, histVars, lastLoad>>

\* The Recording rows are those of the sample data.
NextConcurrent ==
    \/ PopulateSampleData
    \/ GuiComputeStatistics
    \/ GuiReplyNo
    \/ \E p \in Callers : PopulateBegin(p)
    \/ \E p \in Callers : PopulateKey(p)
    \/ \E p \in Callers : MakeInsert(p)
    \/ \E p \in Callers : PopulateReturn(p)

SpecConcurrent == Init /\ [][NextConcurrent]_vars

\* Each process goes on as long as it is inside populate.
SpecTermination ==
    /\ SpecConcurrent
    /\ \A p \in Callers :
          WF_vars(PopulateKey(p) \/ MakeInsert(p) \/ PopulateReturn(p))

-----------------------------------------------------------------------------
(* The store and the two callers of populate, one call at a time *)

Next ==
    \/ \E row \in SampleSubjects : InsertSubject(row)
    \/ \E row \in SampleSessions : InsertSession(row)
    \/ \E key \in RecordingKeys : \E in \in RecordingInputs :
          InsertRecording(RecordingRow(key, in))
    \/ ComputeAllStatistics
    \/ GuiComputeStatistics
    \/ GuiReplyNo
    \/ GuiReplyYes

Spec == Init /\ [][Next]_vars

-----------------------------------------------------------------------------
(* make over the values its columns can hold: rows entered by hand and the *)
(* script *)

NextMake ==
    \/ \E row \in SampleSubjects : InsertSubject(row)
    \/ \E row \in SampleSessions : InsertSession(row)
    \/ \E key \in RecordingKeys : \E in \in MakeInputs :
          InsertRecording(RecordingRow(key, in))
    \/ ComputeAllStatistics

SpecMake == Init /\ [][NextMake]_vars

-----------------------------------------------------------------------------
(* The application: the handlers of the window and the pipeline script *)

NextApp ==
    \/ PopulateSampleData
    \/ ComputeAllStatistics
    \/ RefreshAllTables
    \/ AddSubjectCancel
    \/ \E text \in SubjectIdTexts : \E species \in {"mouse", "rat"} :
          AddSubject(text, species)
    \/ GuiComputeStatistics
    \/ GuiReplyNo
    \/ GuiReplyYes
    \/ \E current_tab_index \in 0..3 : \E filename \in BOOLEAN :
          ExportData(current_tab_index, filename)
    \/ ShowVisualizations

SpecApp == Init /\ [][NextApp]_vars

-----------------------------------------------------------------------------
(* Properties of populate *)

Called == lastCall.caller # "none"

Injective(s) == \A i, j \in DOMAIN s : s[i] = s[j] => i = j

C2_Completeness ==
    (Called /\ lastCall.error = NoError) =>
        /\ \A rec \in Recording :
              \E row \in RecordingStats : RecordingKey(row) = RecordingKey(rec)
        /\ Keys(Recording) \ Keys(RecordingStats) = {}

C2_Witness ==
    /\ Called
    /\ lastCall.error = NoError
    /\ lastCall.made = <<KeyOfIndex(1), KeyOfIndex(0)>>

\* C3: populate leaves every RecordingStats row that existed before the call
\* as it was, does not call make for its key and does not fail with
\* DuplicateError; new rows are rows of keys that had none.
C3_NoOverwrite ==
    Called =>
        /\ \A row \in lastCall.before :
              /\ row \in RecordingStats
              /\ RecordingKey(row) \notin Range(lastCall.made)
        /\ lastCall.error # "DuplicateError"
        /\ \A row \in RecordingStats \ lastCall.before :
              RecordingKey(row) \notin Keys(lastCall.before)

C3_Witness ==
    /\ Called
    /\ lastCall.before # {}
    /\ lastCall.inserted > 0

\* C4 as stated: a populate call invokes make for exactly the keys of
\* Recording - RecordingStats at the start of the call, once each.
C4_MakeForExactlyPending ==
    Called =>
        /\ Range(lastCall.made) = lastCall.pending
        /\ Injective(lastCall.made)

\* C4 amended: a populate call invokes make only for keys of
\* Recording - RecordingStats at the start of the call and at most once per
\* key; a call that returns without error invokes it for exactly those keys,
\* and a call that raises invoked it last for the key that failed.
C4_MakeForPending ==
    Called =>
        /\ Range(lastCall.made) \subseteq lastCall.pending
        /\ Injective(lastCall.made)
        /\ lastCall.error = NoError => Range(lastCall.made) = lastCall.pending
        /\ lastCall.error # NoError => lastCall.made # <<>>

C4_Witness ==
    /\ Called
    /\ lastCall.error = NoError
    /\ Len(lastCall.made) >= 2
    /\ lastCall.before = {}

\* C5: the rows a populate call inserted carry exactly the keys make returned
\* for, and every RecordingStats row holds statistics of a signal of the
\* shape its own Recording row gives (a shape the spike loop accepts).
C5_KeyCorrectness ==
    /\ Called => Keys(RecordingStats \ lastCall.before) = Done(lastCall)
    /\ \A row \in RecordingStats :
          \E rec \in Recording :
             /\ RecordingKey(rec) = RecordingKey(row)
             /\ rec.num_channels > 0
             /\ num_samples(rec) > SpikeSamples
             /\ \E rnd \in RandomOutcomes :
                   row = StatsRow(RecordingKey(rec),
                                  Statistics(rec.num_channels, num_samples(rec), rnd))

C5_Witness ==
    \E r1, r2 \in RecordingStats :
       \E c1, c2 \in Recording :
          /\ RecordingKey(r1) = RecordingKey(c1)
          /\ RecordingKey(r2) = RecordingKey(c2)
          /\ c1.num_channels # c2.num_channels
          /\ r1.mean_amplitude # r2.mean_amplitude

StatsAttributes ==
    {"subject_id", "session_id", "recording_id",
     "mean_amplitude", "peak_amplitude", "noise_level"}

\* C6: RecordingStats holds at most one row per key, exactly one for every
\* key make returned for, and every row carries the key and all three
\* statistics, each a number.
C6_OneCompleteRow ==
    /\ \A r1, r2 \in RecordingStats : RecordingKey(r1) = RecordingKey(r2) => r1 = r2
    /\ \A k \in made_done :
          Cardinality({row \in RecordingStats : RecordingKey(row) = k}) = 1
    /\ \A row \in RecordingStats :
          /\ DOMAIN row = StatsAttributes
          /\ row.mean_amplitude \in Int
          /\ row.peak_amplitude \in Int
          /\ row.noise_level \in Int

C6_Witness ==
    /\ Cardinality(RecordingStats) >= 2
    /\ Cardinality(made_done) >= 2

\* C7 as stated: a RecordingStats row exists for a Recording key exactly when
\* make has been called for the key.
C7_RowIffMakeCalled ==
    \A k \in Keys(Recording) : (k \in Keys(RecordingStats)) <=> (k \in made_calls)

\* C7 amended: a RecordingStats row exists for a Recording key exactly when
\* make has returned without error for the key at least once.
C7_RowIffMakeReturned ==
    \A k \in Keys(Recording) : (k \in Keys(RecordingStats)) <=> (k \in made_done)

C7_Witness ==
    \E k1, k2 \in Keys(Recording) :
       /\ k1 \in made_done /\ k1 \in Keys(RecordingStats)
       /\ k2 \in made_calls \ made_done /\ k2 \notin Keys(RecordingStats)

\* The step in which compute_statistics shows its Success box.
GuiSuccess ==
    /\ gui_pc = "confirm"
    /\ gui_pc' = "idle"
    /\ message'.title = "Success"

\* C9: the count in the Success box of compute_statistics is the number of
\* rows the populate call of that step added to RecordingStats.
C9_ReportedCount ==
    [][GuiSuccess =>
          message'.count = Cardinality(RecordingStats') - Cardinality(RecordingStats)]_vars

\* What holds of a populate call that raised.
FailFast ==
    (Called /\ lastCall.error # NoError) =>
        LET k == lastCall.made[Len(lastCall.made)] IN
        /\ lastCall.made # <<>>
        /\ k \notin Keys(RecordingStats)
        /\ Injective(lastCall.made)
        /\ \A j \in lastCall.pending \ Range(lastCall.made) :
              j \notin Keys(RecordingStats)
        /\ Keys(RecordingStats) = Keys(lastCall.before) \cup (Range(lastCall.made) \ {k})

\* C10: when make raises for a pending key, populate gives the key up without
\* a second try, the caller gets the error (compute_statistics shows its Error
\* box), RecordingStats has no row for the key and none for the pending keys
\* not yet processed.
C10_FailFast ==
    [][/\ FailFast'
       /\ (gui_pc = "confirm" /\ message' # NoMessage /\ lastCall'.error # NoError) =>
             /\ lastCall'.caller = "gui"
             /\ message'.kind = "critical"]_vars

C10_Witness ==
    /\ lastCall.caller = "gui"
    /\ lastCall.error = "ValueError"
    /\ Len(lastCall.made) = 1
    /\ Cardinality(lastCall.pending) >= 2
    /\ message.kind = "critical"

\* C8: in every step of the application a RecordingStats row stays as it is
\* unless its Recording row goes away, and the rows a step adds are the rows
\* make inserted in the populate call of that step.
C8_Lifecycle ==
    [][/\ \A row \in RecordingStats :
             \/ row \in RecordingStats'
             \/ ~ \E rec \in Recording' : RecordingKey(rec) = RecordingKey(row)
       /\ RecordingStats' # RecordingStats =>
             /\ lastCall'.caller # "none"
             /\ lastCall'.before = RecordingStats
             /\ Keys(RecordingStats' \ RecordingStats) = Done(lastCall')]_vars

\* Statistics were computed, a populate call after that found nothing to do,
\* a subject was added in the window and the Statistics tab was exported.
C8_Witness ==
    /\ Cardinality(RecordingStats) >= 2
    /\ lastCall.caller # "none"
    /\ lastCall.inserted = 0
    /\ view.stats = Cardinality(RecordingStats)
    /\ \E r \in Subject : r.subject_name = "S"
    /\ exported.table = "Statistics"

-----------------------------------------------------------------------------
(* Duplicate keys and referential integrity *)

\* C11: in populate calls that run one after another, with Recording rows
\* inserted between them, no call ends in DuplicateError: every key handed to
\* make had no RecordingStats row when the call began and was not handed to
\* make earlier in the call, so it is absent at the moment of its insert.
C11_NoDuplicateKey ==
    Called =>
        /\ lastCall.error # "DuplicateError"
        /\ \A i \in DOMAIN lastCall.made :
              lastCall.made[i] \notin
                  (Keys(lastCall.before) \cup {lastCall.made[j] : j \in 1..(i - 1)})

\* A call of the window that found one row computed by an earlier call and
\* inserted the row of a Recording entered since.
C11_Witness ==
    /\ lastCall.caller = "gui"
    /\ ~ lastCall.repeat
    /\ lastCall.error = NoError
    /\ Cardinality(lastCall.before) = 1
    /\ Len(lastCall.made) = 1
    /\ Cardinality(RecordingStats) = 2

\* C12: when the script and the window run populate at the same time, an
\* insert1 of make for a key that has a RecordingStats row by then (the other
\* process inserted it after this one fetched its keys and computed the
\* statistics) raises DuplicateError and leaves the table as it is, and the
\* table never holds two rows of one key.
C12_ConcurrentDuplicate ==
    [][/\ \A p \in Callers :
             (/\ workers[p].pc = "insert"
              /\ workers'[p].pc # "insert"
              /\ ~ workers[p].stats.nan
              /\ Head(workers[p].keys) \in Keys(RecordingStats))
                => /\ workers'[p].error = "DuplicateError"
                   /\ workers'[p].pc = "idle"
                   /\ RecordingStats' = RecordingStats
       /\ \A r1, r2 \in RecordingStats' :
             RecordingKey(r1) = RecordingKey(r2) => r1 = r2]_vars

\* Both processes had the key in their pending sets and both computed
\* statistics for it; the script inserted its row and the insert of the
\* window was refused.
C12_Witness ==
    \E k \in RecordingKeys :
       /\ \A p \in Callers : k \in workers[p].pending /\ k \in workers[p].computed
       /\ workers["gui"].pc = "idle"
       /\ workers["gui"].error = "DuplicateError"
       /\ Head(workers["gui"].keys) = k
       /\ workers["script"].error = NoError
       /\ Cardinality({row \in RecordingStats : RecordingKey(row) = k}) = 1
       /\ message.title = "Error"

\* C13: every RecordingStats key is the key of a Recording row, every
\* Recording row belongs to a Session row and every Session row to a Subject
\* row; so RecordingStats has no more rows than Recording, and the fetch1 of
\* make always finds its Recording row (no populate call ends in the
\* DataJointError of fetch1).
C13_ReferentialIntegrity ==
    /\ \A row \in RecordingStats :
          \E rec \in Recording : RecordingKey(rec) = RecordingKey(row)
    /\ \A rec \in Recording :
          \E ses \in Session : SessionKey(ses) = SessionKey(rec)
    /\ \A ses \in Session :
          \E sub \in Subject : SubjectKey(sub) = SubjectKey(ses)
    /\ Cardinality(RecordingStats) <= Cardinality(Recording)
    /\ lastCall.error # "DataJointError"
    /\ \A k \in made_calls : Cardinality(fetch1(Recording, k)) = 1

\* The script computed the statistics of two recordings of one session.
C13_Witness ==
    /\ lastCall.caller = "script"
    /\ Len(lastCall.made) = 2
    /\ Cardinality(RecordingStats) = 2
    /\ Cardinality(Recording) = 2
    /\ Session # {}
    /\ Subject # {}

-----------------------------------------------------------------------------
(* The statistics and the inputs of make *)

\* The bounds of the three statistics; a nan is not at or above 0.
WithinBounds(s) ==
    /\ ~ s.nan
    /\ s.mean_amplitude >= 0
    /\ s.mean_amplitude <= s.peak_amplitude
    /\ s.noise_level >= 0

RecordingOf(k) == CHOOSE rec \in Recording : RecordingKey(rec) = k

\* No channel, or no sample.
InvalidShape(rec) == rec.num_channels <= 0 \/ num_samples(rec) <= 0

\* C15: when the channel count of a Recording row is not positive or its
\* sample count int(10 * sampling_rate) is not positive, make raises before
\* its insert1: the key never gets a RecordingStats row, make never returns
\* for it, and a populate call that reaches it ends there with ValueError.
C15_ComputationError ==
    /\ \A rec \in Recording :
          InvalidShape(rec) =>
             /\ RecordingKey(rec) \notin Keys(RecordingStats)
             /\ RecordingKey(rec) \notin made_done
    /\ \A i \in DOMAIN lastCall.made :
          InvalidShape(RecordingOf(lastCall.made[i])) =>
             /\ i = Len(lastCall.made)
             /\ lastCall.error = "ValueError"
             /\ ComputedBy(lastCall.made[i], CHOOSE rnd \in RandomOutcomes : TRUE,
                           Recording) = {}

\* populate computed the statistics of one recording and then raised at a
\* recording with no channel.
C15_Witness ==
    /\ Len(lastCall.made) = 2
    /\ lastCall.error = "ValueError"
    /\ RecordingOf(lastCall.made[2]).num_channels = 0
    /\ lastCall.inserted = 1
    /\ lastCall.made[2] \notin Keys(RecordingStats)

\* The domain the data model documents: a positive channel count and a
\* positive sampling rate; the rates that give at least one sample (a row
\* with none is the matter of C15).
Documented(rec) ==
    rec.num_channels > 0 /\ rec.sampling_rate > 0 /\ num_samples(rec) >= 1

\* C17: for every Recording row with a positive channel count and a positive
\* sampling rate that populate hands to make, make returns without raising
\* and the key has a RecordingStats row; this includes the rows whose sample
\* count is between 1 and 100.
C17_AcceptsDocumentedDomain ==
    \A i \in DOMAIN lastCall.made :
       Documented(RecordingOf(lastCall.made[i])) =>
          /\ lastCall.made[i] \in Done(lastCall)
          /\ lastCall.made[i] \in Keys(RecordingStats)

-----------------------------------------------------------------------------
(* Termination *)

\* C16: a process that is inside populate leaves it (at every moment it is
\* outside populate then or later), with every key it fetched processed or
\* with the first error; each insert of make takes one
\* key off the keys the call has left and off Recording - RecordingStats; and
\* the spike loop of a make runs num_spikes times, at least 50 and fewer than
\* 200.
C16_Termination ==
    /\ \A p \in Callers : []<>(workers[p].pc = "idle")
    /\ [](\A p \in Callers :
             /\ (workers[p].pc = "idle" /\ workers[p].error = NoError)
                   => workers[p].pending \subseteq Keys(RecordingStats)
             /\ (workers[p].pc = "idle" /\ workers[p].error # NoError)
                   => workers[p].keys # <<>>
             /\ workers[p].pc = "insert"
                   => /\ workers[p].rnd.num_spikes >= MinSpikes
                      /\ workers[p].rnd.num_spikes < MaxSpikes)
    /\ [][\A p \in Callers :
             (workers[p].pc = "insert" /\ workers'[p].pc = "key")
                => /\ Len(workers'[p].keys) = Len(workers[p].keys) - 1
                   /\ Cardinality(PendingKeys(Recording', RecordingStats'))
                         = Cardinality(PendingKeys(Recording, RecordingStats)) - 1]_vars

\* The script and the window have both come back from populate calls that
\* fetched the same two keys: each computed one row and passed over the key
\* the other had inserted by then.
C16_Witness ==
    /\ \A p \in Callers :
          /\ workers[p].pc = "idle"
          /\ workers[p].error = NoError
          /\ Cardinality(workers[p].pending) = 2
          /\ Cardinality(workers[p].computed) = 1
    /\ workers["gui"].computed # workers["script"].computed
    /\ Cardinality(RecordingStats) = 2
    /\ message.title = "Success"

-----------------------------------------------------------------------------
(* The handlers of the window *)

\* C18: compute_statistics asks for confirmation only when
\* Recording - RecordingStats is not empty, and keeps that count; with an
\* empty difference it shows "Already Computed" and changes no table; when
\* the user answers No it changes no table, calls no populate and shows no
\* message; a populate call of the window, and a Success box, come only in
\* the step that follows Yes, with a count above zero.
C18_ComputeGuard ==
    [][/\ (gui_pc = "idle" /\ gui_pc' = "confirm")
             => /\ PendingKeys(Recording, RecordingStats) # {}
                /\ recordings_without_stats'
                      = Cardinality(PendingKeys(Recording, RecordingStats))
                /\ UNCHANGED <<storeVars, histVars>>
       /\ (message'.title = "Already Computed" /\ message' # message)
             => /\ PendingKeys(Recording, RecordingStats) = {}
                /\ gui_pc = "idle" /\ gui_pc' = "idle"
                /\ UNCHANGED <<storeVars, histVars>>
       /\ (gui_pc = "confirm" /\ gui_pc' = "idle" /\ message' = NoMessage)
             => UNCHANGED <<storeVars, histVars>>
       /\ (lastCall' # lastCall /\ lastCall'.caller = "gui")
             => /\ gui_pc = "confirm"
                /\ recordings_without_stats > 0
                /\ message' # NoMessage
       /\ (message'.title = "Success" /\ message' # message)
             => /\ gui_pc = "confirm"
                /\ recordings_without_stats > 0
                /\ message'.count > 0
                /\ lastCall'.caller = "gui"]_vars

\* The window computed statistics after a Yes, and the next Compute
\* Statistics found nothing to do.
C18_Witness ==
    /\ message.title = "Already Computed"
    /\ gui_pc = "idle"
    /\ lastCall.caller = "gui"
    /\ lastCall.inserted > 0
    /\ RecordingStats # {}

\* C19: no step of the application removes or changes a Subject row, and
\* subject_id stays unique; the step in which add_subject shows its Error box
\* (the id exists or the text is not an integer) leaves every table as it
\* is; and a Subject row is added only by the sample load or by an
\* add_subject that shows Success, one row with an id that was free (so a
\* cancelled dialog adds nothing).
C19_AddSubjectFailure ==
    [][/\ Subject \subseteq Subject'
       /\ \A r1, r2 \in Subject' : SubjectKey(r1) = SubjectKey(r2) => r1 = r2
       /\ (gui_pc = "idle" /\ message'.kind = "critical" /\ message' # message)
             => UNCHANGED <<storeVars, view>>
       /\ (Subject' # Subject /\ lastLoad' = lastLoad)
             => /\ message'.title = "Success"
                /\ Cardinality(Subject' \ Subject) = 1
                /\ \A new \in Subject' \ Subject :
                      ~ \E r \in Subject : SubjectKey(r) = SubjectKey(new)
                /\ view'.subjects = Cardinality(Subject')]_vars

\* The dialog added subject 1, the sample load passed over its subject 1,
\* and a later add_subject showed its Error box; no populate call has raised.
C19_Witness ==
    /\ message.kind = "critical"
    /\ gui_pc = "idle"
    /\ RecordingStats = {}
    /\ lastCall.caller = "none"
    /\ lastLoad.ran
    /\ \E r \in Subject : r.subject_id = 1 /\ r.subject_name = "S"

\* C20: a populate_sample_data call raises no error (every Session it
\* inserts finds its Subject and every Recording its Session, the subjects
\* and sessions being inserted first), keeps every row of the four tables as
\* it is, and leaves RecordingStats alone; a call after the first adds no row
\* and changes no table; and once the sample data is loaded, one more call
\* in the state any step of the application leads to would raise nothing
\* and change nothing (the steps that change a table, and the loads, lead to
\* all these states).
C20_SampleLoadRerunnable ==
    [][/\ lastLoad' # lastLoad
             => /\ populate_sample_data(Subject, Session, Recording,
                                        RecordingStats).error = NoError
                /\ Subject \subseteq Subject'
                /\ Session \subseteq Session'
                /\ Recording \subseteq Recording'
                /\ RecordingStats' = RecordingStats
                /\ SessionParents(Subject', Session')
                /\ RecordingParents(Session', Recording')
                /\ Keys(RecordingsToLoad) \subseteq Keys(Recording')
                /\ \A r1, r2 \in Subject' : SubjectKey(r1) = SubjectKey(r2) => r1 = r2
                /\ \A r1, r2 \in Session' : SessionKey(r1) = SessionKey(r2) => r1 = r2
                /\ \A r1, r2 \in Recording' :
                      RecordingKey(r1) = RecordingKey(r2) => r1 = r2
                /\ lastLoad.ran => UNCHANGED storeVars
       /\ (lastLoad'.ran /\ (storeVars' # storeVars \/ lastLoad' # lastLoad))
             => populate_sample_data(Subject', Session', Recording', RecordingStats')
                  = [error |-> NoError, subject |-> Subject', session |-> Session',
                     recording |-> Recording', stats |-> RecordingStats']]_vars

\* The sample data was loaded again after statistics were computed, with a
\* subject 1 in the table that the dialog had added before the first load.
C20_Witness ==
    /\ lastLoad.ran
    /\ lastLoad.computed
    /\ Cardinality(RecordingStats) >= 2
    /\ Keys(RecordingsToLoad) \subseteq Keys(Recording)
    /\ \E r \in Subject : r.subject_id = 1 /\ r.subject_name = "S"

====
